---- MODULE Spec2Model ----
(***************************************************************************)
(* Model of src/src/main.js: calculateSimpleRevenue, calculateBonusByProfit *)
(* and the batch pipeline analyzeSalesData (validation, indexing,           *)
(* aggregation over receipts and line items, ranking, bonus, top products,  *)
(* projection into the report).                                             *)
(*                                                                          *)
(* Numbers.  JavaScript numbers are modelled as exact fixed-point integers: *)
(*   - sale_price, purchase_price, total_amount: an integer count of 1/100  *)
(*     (amounts with two decimals);                                         *)
(*   - quantity: an integer; discount: an integer percentage;               *)
(*   - revenue, cost, profit of the accumulators: a count of 1/10^4, so     *)
(*     that price * quantity * (1 - discount/100) is exact;                 *)
(*   - bonus before rounding: a count of 1/10^6, so that profit * 0.15 is   *)
(*     exact;                                                               *)
(*   - the report's revenue, profit, bonus (after toFixed(2)): a count of   *)
(*     1/100.                                                               *)
(* Binary floating-point representation error is not modelled.             *)
(*                                                                          *)
(* Keys.  A SKU is a pair <<kind, n>>: <<"int", n>> is the canonical        *)
(* numeric key n (a product whose sku is the number n or the string "n"),   *)
(* <<"str", n>> is any other string key (such as "SKU_00n").  Object keys   *)
(* that name members of Object.prototype are outside the modelled inputs.   *)
(***************************************************************************)
EXTENDS Integers, Sequences, FiniteSets, TLC

VARIABLES
    data,           \* the dataset argument: its shape and the sellers and products arrays
    options,        \* the options argument: its type and the types of its two callables
    pc,             \* position in analyzeSalesData
    error,          \* the error thrown, "" when none
    records,        \* the part of data.purchase_records iterated so far: for each record
                    \* its seller_id, its total_amount and the number of its items read
    item,           \* the line item the inner forEach read last (NoItem outside of it)
    cur,            \* index in sellerStats of the current record's seller (0: none)
    sellerStats,    \* the accumulator objects, in data.sellers order
    sellerIndex,    \* seller id -> index in sellerStats
    productIndex,   \* sku -> product
    warnings,       \* console.warn calls so far
    sortedSellers,  \* the sorted copy: indices into sellerStats
    k,              \* number of sorted sellers the bonus loop has done
    report          \* the returned array

vars == <<data, options, pc, error, records, item, cur, sellerStats,
          sellerIndex, productIndex, warnings, sortedSellers, k, report>>

-----------------------------------------------------------------------------
(* Program constants *)

\* discount / 100 (main.js:12)
Percent == 100
\* profit * 0.15, in percent (main.js:35)
FirstPlaceRate == 15
\* profit * 0.10, in percent (main.js:40)
SecondThirdRate == 10
\* profit * 0.05, in percent (main.js:49)
OtherRate == 5
\* slice(0, 10) (main.js:163)
TopN == 10

(* Bounds of the model *)

\* longest data.sellers of the general inputs
MaxSellers == 2
\* most records and line items, counted together, of the general inputs
MaxCalls == 5
\* longest data.sellers of the ranking inputs
MaxRankSellers == 5
\* largest catalog of the top-products inputs
MaxSkus == 11

-----------------------------------------------------------------------------
(* Arithmetic helpers *)

\* units of 1/10^4 in one unit of 1/100
AccPerCent == Percent
\* units of 1/10^6 in one unit of 1/100
BonusPerCent == Percent * Percent

\* Number.prototype.toFixed(2) followed by unary +: the nearest multiple of
\* 1/100, a tie going away from zero; x counts units of 1/(100 * scale).
toFixed2(x, scale) ==
    IF x >= 0 THEN (2 * x + scale) \div (2 * scale)
    ELSE -((2 * (-x) + scale) \div (2 * scale))

Range(s) == {s[j] : j \in DOMAIN s}

SeqsUpTo(S, n) == UNION {[1..m -> S] : m \in 0..n}

RECURSIVE Sum(_)
Sum(s) == IF s = <<>> THEN 0 ELSE s[1] + Sum(Tail(s))

-----------------------------------------------------------------------------
(* Plain objects used as maps, and Array.prototype.sort *)

\* An object used as a map from sku to number is the sequence of its
\* properties [sku, quantity] in the order the properties were created.
NoProperties == <<>>

HasKey(obj, sku) == \E j \in DOMAIN obj : obj[j].sku = sku

KeyPos(obj, sku) == CHOOSE j \in DOMAIN obj : obj[j].sku = sku

\* !obj[sku]: the property is absent (undefined) or holds 0
Falsy(obj, sku) == ~HasKey(obj, sku) \/ obj[KeyPos(obj, sku)].quantity = 0

\* obj[sku] = v: an existing property keeps its place, a new one goes last
SetProperty(obj, sku, v) ==
    IF HasKey(obj, sku)
    THEN [obj EXCEPT ![KeyPos(obj, sku)].quantity = v]
    ELSE Append(obj, [sku |-> sku, quantity |-> v])

IsIntKey(sku) == sku[1] = "int"

\* a.sort((x, y) => keys[y] - keys[x]) as the permutation it applies: the
\* element at place p of the result is the one with p - 1 elements before it,
\* those with a larger key and those with an equal key that came earlier
\* (the sort is stable).
SortDescStable(keys) ==
    [p \in DOMAIN keys |->
        CHOOSE a \in DOMAIN keys :
            Cardinality({b \in DOMAIN keys :
                \/ keys[b] > keys[a]
                \/ keys[b] = keys[a] /\ b < a}) = p - 1]

\* Object.entries(obj): the canonical numeric keys in ascending numeric
\* order, then the other string keys in the order of their creation.
ObjectEntries(obj) ==
    LET ints == SelectSeq(obj, LAMBDA e : IsIntKey(e.sku))
        strs == SelectSeq(obj, LAMBDA e : ~IsIntKey(e.sku))
        asc  == SortDescStable([j \in DOMAIN ints |-> -(ints[j].sku[2])])
    IN  [j \in DOMAIN ints |-> ints[asc[j]]] \o strs

\* slice(0, n)
Slice(s, n) == IF Len(s) <= n THEN s ELSE SubSeq(s, 1, n)

-----------------------------------------------------------------------------
(* The two strategies of the repository.  A call that passes validation is *)
(* taken to be given them as options.calculateRevenue and                  *)
(* options.calculateBonus.                                                 *)

\* sale_price * quantity * (1 - discount / 100), in units of 1/10^4
calculateSimpleRevenue(purchase, product) ==
    purchase.sale_price * purchase.quantity * (Percent - purchase.discount)

\* calculateBonusByProfit with the last-place test ahead of the tests of the
\* first three places
calculateBonusLastFirst(index, total, seller) ==
    IF seller.profit <= 0 THEN 0
    ELSE IF index = total - 1 THEN 0
    ELSE IF index = 0 THEN seller.profit * FirstPlaceRate
    ELSE IF index = 1 \/ index = 2 THEN seller.profit * SecondThirdRate
    ELSE seller.profit * OtherRate

\* index: place in the ranking from 0; total: number of sellers; the result
\* in units of 1/10^6
calculateBonusByProfit(index, total, seller) ==
    IF seller.profit <= 0 THEN 0
    ELSE IF index = 0 THEN seller.profit * FirstPlaceRate
    ELSE IF index = 1 \/ index = 2 THEN seller.profit * SecondThirdRate
    ELSE IF index = total - 1 THEN 0
    ELSE seller.profit * OtherRate

-----------------------------------------------------------------------------
(* analyzeSalesData: the pieces *)

NoItem == [sku |-> <<"str", 0>>, quantity |-> 0, sale_price |-> 0, discount |-> 0]

\* DataValid without the test of purchase_records.length
DataValidRecordsUnchecked(d) ==
    /\ d.given
    /\ d.sellers.isArray
    /\ d.products.isArray
    /\ d.purchase_records.isArray
    /\ Len(d.sellers.elems) # 0
    /\ Len(d.products.elems) # 0

\* step 1 passes
DataValid(d) ==
    /\ d.given
    /\ d.sellers.isArray
    /\ d.products.isArray
    /\ d.purchase_records.isArray
    /\ Len(d.sellers.elems) # 0
    /\ Len(d.products.elems) # 0
    /\ ~d.purchase_records.empty

\* typeof options
TypeOf(o) == IF o.value = "null" THEN "object" ELSE o.value

\* step 2 passes its first test
OptionsIsObject(o) == TypeOf(o) = "object" /\ o.value # "null"

\* step 2 passes its second test
CallablesGiven(o) == o.calculateRevenue = "function" /\ o.calculateBonus = "function"

\* lines 83 to 90: the accumulator of one seller
NewStats(seller) ==
    [id            |-> seller.id,
     name          |-> <<seller.first_name, seller.last_name>>,
     revenue       |-> 0,
     profit        |-> 0,
     sales_count   |-> 0,
     products_sold |-> NoProperties]

\* the n-th smallest element of a set of numbers
Nth(S, n) == CHOOSE x \in S : Cardinality({y \in S : y < x}) = n - 1

\* InitialStats with one accumulator for each seller id instead of each seller
InitialStatsOfIds(sellers) ==
    LET firsts == {j \in DOMAIN sellers :
                      \A m \in 1..(j - 1) : sellers[m].id # sellers[j].id}
    IN  [n \in 1..Cardinality(firsts) |-> NewStats(sellers[Nth(firsts, n)])]

\* step 3: one accumulator for each element of data.sellers, in order
InitialStats(sellers) == [j \in DOMAIN sellers |-> NewStats(sellers[j])]

\* step 4: acc[seller.id] = seller over the array, a later element replacing
\* an earlier one with the same id
BuildSellerIndex(stats) ==
    [id \in {stats[j].id : j \in DOMAIN stats} |->
        CHOOSE j \in DOMAIN stats :
            /\ stats[j].id = id
            /\ \A m \in DOMAIN stats : stats[m].id = id => m <= j]

\* step 4: acc[product.sku] = product, likewise
BuildProductIndex(products) ==
    [sku \in {products[j].sku : j \in DOMAIN products} |->
        products[CHOOSE j \in DOMAIN products :
            /\ products[j].sku = sku
            /\ \A m \in DOMAIN products : products[m].sku = sku => m <= j]]

\* lines 115 and 118 on the record's seller
CountReceipt(seller, record) ==
    [seller EXCEPT !.sales_count = @ + 1,
                   !.revenue = @ + record.total_amount * AccPerCent]

\* lines 142 to 145
AddSold(sold, it) ==
    LET started == IF Falsy(sold, it.sku) THEN SetProperty(sold, it.sku, 0) ELSE sold
    IN  SetProperty(started, it.sku, started[KeyPos(started, it.sku)].quantity + it.quantity)

\* CountItem that also adds the item's revenue to the seller's revenue
CountItemWithRevenue(seller, it, product) ==
    LET cost    == product.purchase_price * it.quantity * AccPerCent
        revenue == calculateSimpleRevenue(it, product)
        profit  == revenue - cost
    IN  [seller EXCEPT !.profit = @ + profit,
                       !.revenue = @ + revenue,
                       !.products_sold = AddSold(@, it)]

\* CountItem with the profit taken as cost - revenue
CountItemCostMinusRevenue(seller, it, product) ==
    LET cost    == product.purchase_price * it.quantity * AccPerCent
        revenue == calculateSimpleRevenue(it, product)
        profit  == cost - revenue
    IN  [seller EXCEPT !.profit = @ + profit,
                       !.products_sold = AddSold(@, it)]

\* lines 130 to 145 on the record's seller, for an item whose product is known
CountItem(seller, it, product) ==
    LET cost    == product.purchase_price * it.quantity * AccPerCent
        revenue == calculateSimpleRevenue(it, product)
        profit  == revenue - cost
    IN  [seller EXCEPT !.profit = @ + profit,
                       !.products_sold = AddSold(@, it)]

\* SortByProfit with the comparator a.profit - b.profit
SortByProfitAscending(stats) == SortDescStable([j \in DOMAIN stats |-> -stats[j].profit])

\* line 150: a sorted copy of the array of accumulators
SortByProfit(stats) == SortDescStable([j \in DOMAIN stats |-> stats[j].profit])

\* lines 160 to 163
TopProducts(sold) ==
    LET entries == ObjectEntries(sold)
        order   == SortDescStable([j \in DOMAIN entries |-> entries[j].quantity])
    IN  Slice([j \in DOMAIN entries |-> entries[order[j]]], TopN)

\* lines 169 to 177 for one seller
Project(seller) ==
    [seller_id    |-> seller.id,
     name         |-> seller.name,
     revenue      |-> toFixed2(seller.revenue, AccPerCent),
     profit       |-> toFixed2(seller.profit, AccPerCent),
     sales_count  |-> seller.sales_count,
     top_products |-> seller.top_products,
     bonus        |-> toFixed2(seller.bonus, BonusPerCent)]

\* RecordEffect that books the record of an unknown seller on the first seller
RecordEffectOnFirst(stats, index, record) ==
    IF record.seller_id \in DOMAIN index
    THEN [stats EXCEPT ![index[record.seller_id]] = CountReceipt(@, record)]
    ELSE [stats EXCEPT ![1] = CountReceipt(@, record)]

\* lines 107 to 118: what a record does to the accumulators
RecordEffect(stats, index, record) ==
    IF record.seller_id \in DOMAIN index
    THEN [stats EXCEPT ![index[record.seller_id]] = CountReceipt(@, record)]
    ELSE stats

\* ItemEffect that counts an item of an unknown product at no cost
ItemEffectUnchecked(stats, seller, index, it) ==
    IF it.sku \in DOMAIN index
    THEN [stats EXCEPT ![seller] = CountItem(@, it, index[it.sku])]
    ELSE [stats EXCEPT ![seller] = CountItem(@, it, [purchase_price |-> 0])]

\* lines 122 to 145: what a line item does to the accumulators; seller is the
\* index of the record's seller
ItemEffect(stats, seller, index, it) ==
    IF it.sku \in DOMAIN index
    THEN [stats EXCEPT ![seller] = CountItem(@, it, index[it.sku])]
    ELSE stats

\* WithBonus whose bonus has no test of profit <= 0
WithBonusOfLosses(seller, index, total) ==
    seller @@ [bonus        |-> IF index = 0 THEN seller.profit * FirstPlaceRate
                                ELSE IF index = 1 \/ index = 2
                                     THEN seller.profit * SecondThirdRate
                                ELSE IF index = total - 1 THEN 0
                                ELSE seller.profit * OtherRate,
               top_products |-> TopProducts(seller.products_sold)]

\* lines 157 to 165: seller.bonus = ..., seller.top_products = ...
WithBonus(seller, index, total) ==
    seller @@ [bonus        |-> calculateBonusByProfit(index, total, seller),
               top_products |-> TopProducts(seller.products_sold)]

-----------------------------------------------------------------------------
(* analyzeSalesData: the steps.  The dataset says whether purchase_records *)
(* is a non-empty array; its records and their line items are read in      *)
(* order, and each is chosen when the forEach that reads it gets to it.    *)

Throw(message) ==
    /\ pc' = "thrown"
    /\ error' = message
    /\ UNCHANGED <<sellerStats, sellerIndex, productIndex>>

\* steps 1 to 4: the checks, then the accumulators and the two indexes
Validate ==
    /\ pc = "call"
    /\ IF ~DataValid(data) THEN Throw("invalid input data")
       ELSE IF ~OptionsIsObject(options) THEN Throw("options must be an object")
       ELSE IF ~CallablesGiven(options) THEN Throw("functions not given")
       ELSE /\ sellerStats' = InitialStats(data.sellers.elems)
            /\ sellerIndex' = BuildSellerIndex(sellerStats')
            /\ productIndex' = BuildProductIndex(data.products.elems)
            /\ pc' = "records"
            /\ error' = error
    /\ UNCHANGED <<data, options, records, item, cur, warnings, sortedSellers, k, report>>

\* step 5, one turn of the outer forEach (the inner one, if any, has ended);
\* Headers: the records the input may hold at this place
ProcessRecord(Headers) ==
    /\ pc \in {"records", "items"}
    /\ \E record \in Headers :
        /\ records' = Append(records, [seller_id    |-> record.seller_id,
                                       total_amount |-> record.total_amount,
                                       items        |-> 0])
        /\ sellerStats' = RecordEffect(sellerStats, sellerIndex, record)
        /\ IF record.seller_id \in DOMAIN sellerIndex
           THEN /\ cur' = sellerIndex[record.seller_id]
                /\ pc' = "items"
                /\ warnings' = warnings
           ELSE /\ cur' = 0
                /\ pc' = "records"
                /\ warnings' = Append(warnings, <<"seller", record.seller_id>>)
    /\ item' = NoItem
    /\ UNCHANGED <<data, options, error, sellerIndex, productIndex, sortedSellers, k, report>>

\* step 5, one turn of the inner forEach; Items: the line items the input
\* may hold at this place
ProcessItem(Items) ==
    /\ pc = "items"
    /\ \E it \in Items :
        /\ item' = it
        /\ sellerStats' = ItemEffect(sellerStats, cur, productIndex, it)
        /\ warnings' = IF it.sku \in DOMAIN productIndex THEN warnings
                       ELSE Append(warnings, <<"sku", it.sku>>)
    /\ records' = [records EXCEPT ![Len(records)].items = @ + 1]
    /\ UNCHANGED <<data, options, pc, error, cur, sellerIndex, productIndex,
                   sortedSellers, k, report>>

\* step 6, once the outer forEach has ended
SortSellers ==
    /\ pc \in {"records", "items"}
    /\ Len(records) >= 1
    /\ sortedSellers' = SortByProfit(sellerStats)
    /\ pc' = "bonus"
    /\ k' = 0
    /\ item' = NoItem
    /\ cur' = 0
    /\ UNCHANGED <<data, options, error, records, sellerStats, sellerIndex,
                   productIndex, warnings, report>>

\* step 7, one turn of the forEach over the sorted sellers
AssignBonus ==
    /\ pc = "bonus"
    /\ k < Len(sortedSellers)
    /\ sellerStats' = [sellerStats EXCEPT
           ![sortedSellers[k + 1]] = WithBonus(@, k, Len(sortedSellers))]
    /\ k' = k + 1
    /\ UNCHANGED <<data, options, pc, error, records, item, cur, sellerIndex,
                   productIndex, warnings, sortedSellers, report>>

\* step 8
Return ==
    /\ pc = "bonus"
    /\ k = Len(sortedSellers)
    /\ report' = [p \in DOMAIN sortedSellers |-> Project(sellerStats[sortedSellers[p]])]
    /\ pc' = "returned"
    /\ UNCHANGED <<data, options, error, records, item, cur, sellerStats,
                   sellerIndex, productIndex, warnings, sortedSellers, k>>

-----------------------------------------------------------------------------
(* Inputs *)

\* sellers with the given ids; the names tell the elements apart
Sellers(ids) ==
    [j \in DOMAIN ids |-> [id |-> ids[j], first_name |-> "seller", last_name |-> j]]

\* the j-th sku of the catalogs: a canonical numeric key for an odd j,
\* another string for an even j
Sku(j) == IF j % 2 = 1 THEN <<"int", j>> ELSE <<"str", j>>

\* products with the given skus; the j-th costs j/100
Products(skus) ==
    [j \in DOMAIN skus |-> [sku |-> skus[j], purchase_price |-> j]]

Array(elems) == [isArray |-> TRUE, elems |-> elems]

NotArray == [isArray |-> FALSE, elems |-> <<>>]

\* purchase_records: not an array, an empty array, an array with records
RecordsShapes ==
    {[isArray |-> FALSE, empty |-> TRUE]} \cup [isArray : {TRUE}, empty : BOOLEAN]

NonEmptyArray == [isArray |-> TRUE, empty |-> FALSE]

Dataset(sellers, products, purchase_records) ==
    [given            |-> TRUE,
     sellers          |-> sellers,
     products         |-> products,
     purchase_records |-> purchase_records]

NoDataset ==
    [given            |-> FALSE,
     sellers          |-> NotArray,
     products         |-> NotArray,
     purchase_records |-> [isArray |-> FALSE, empty |-> TRUE]]

GoodOptions ==
    [value |-> "object", calculateRevenue |-> "function", calculateBonus |-> "function"]

AllOptions ==
    [value : {"undefined", "null", "string", "function"},
     calculateRevenue : {"undefined"}, calculateBonus : {"undefined"}]
    \cup [value : {"object"},
          calculateRevenue : {"function", "undefined"},
          calculateBonus : {"function", "string"}]

Start(d, o) ==
    /\ data = d
    /\ options = o
    /\ pc = "call"
    /\ error = ""
    /\ records = <<>>
    /\ item = NoItem
    /\ cur = 0
    /\ sellerStats = <<>>
    /\ sellerIndex = <<>>
    /\ productIndex = <<>>
    /\ warnings = <<>>
    /\ sortedSellers = <<>>
    /\ k = 0
    /\ report = <<>>

\* records and line items read so far
Calls == Len(records) + Sum([j \in DOMAIN records |-> records[j].items])

\* items read of the record the outer forEach is at
ItemsRead == IF records = <<>> THEN 0 ELSE records[Len(records)].items

Receipt(seller_id, total_amount) ==
    [seller_id |-> seller_id, total_amount |-> total_amount]

Sold(sku, quantity, sale_price, discount) ==
    [sku |-> sku, quantity |-> quantity, sale_price |-> sale_price, discount |-> discount]

(* General inputs: every shape of the two arguments; up to MaxSellers      *)
(* sellers with ids 1 and 2, repeated ids included; the catalog <<Sku(1)>>  *)
(* or <<Sku(1), Sku(2)>>; records of the sellers 1, 2 and of the unknown    *)
(* seller 0; line items of Sku(1), Sku(2) and of the unknown <<"str", 0>>,  *)
(* sold at a gain or at a loss.                                             *)

SellerIds == 1..2

GeneralData ==
    {NoDataset} \cup
    {Dataset(s, p, r) :
        s \in {NotArray} \cup {Array(Sellers(ids)) : ids \in SeqsUpTo(SellerIds, MaxSellers)},
        p \in {NotArray} \cup {Array(Products([j \in 1..m |-> Sku(j)])) : m \in 0..2},
        r \in RecordsShapes}

\* the j-th record's total is 7j/100
GeneralHeaders ==
    IF Calls < MaxCalls
    THEN {Receipt(id, 7 * (Len(records) + 1)) : id \in {0} \cup SellerIds}
    ELSE {}

\* one at 3/100 and two at 1/100 each, both at half price
GeneralItems ==
    IF Calls < MaxCalls
    THEN {Sold(<<"str", 0>>, 1, 3, 50), Sold(Sku(1), 1, 3, 50),
          Sold(Sku(1), 2, 1, 50), Sold(Sku(2), 1, 3, 50)}
    ELSE {}

Init == \E d \in GeneralData, o \in AllOptions : Start(d, o)

Next ==
    \/ Validate
    \/ ProcessRecord(GeneralHeaders)
    \/ ProcessItem(GeneralItems)
    \/ SortSellers
    \/ AssignBonus
    \/ Return

Spec == Init /\ [][Next]_vars

(* Ranking inputs: sellers 1..n, n up to MaxRankSellers; one product that  *)
(* costs 1/100; the j-th record is seller j's and has one line item, one   *)
(* unit at a price and a discount that give a profit of 0, -0.005, 0.005,  *)
(* 249.995, 500 or 1000.                                                   *)

RankData ==
    {Dataset(Array(Sellers([j \in 1..n |-> j])), Array(Products(<<Sku(2)>>)), NonEmptyArray) :
        n \in 1..MaxRankSellers}

RankSales == {<<1, 0>>, <<1, 50>>, <<3, 50>>, <<50001, 50>>, <<50001, 0>>, <<100001, 0>>}

RankHeaders ==
    IF Len(records) < Len(data.sellers.elems) /\ (records = <<>> \/ ItemsRead = 1)
    THEN {Receipt(Len(records) + 1, 7)}
    ELSE {}

RankItems ==
    IF ItemsRead = 0 THEN {Sold(Sku(2), 1, s[1], s[2]) : s \in RankSales} ELSE {}

InitRank == \E d \in RankData : Start(d, GoodOptions)

NextRank ==
    \/ Validate
    \/ ProcessRecord(RankHeaders)
    \/ ProcessItem(RankItems)
    \/ SortSellers
    \/ AssignBonus
    \/ Return

SpecRank == InitRank /\ [][NextRank]_vars

(* Top-products inputs: one seller; a catalog of m products, m up to        *)
(* MaxSkus, in ascending or descending order of their number; one record    *)
(* whose line items sell the catalog's products in the catalog's order, one *)
(* or two units each, and then the first product once more.                 *)

TopCatalogs ==
    {[j \in 1..m |-> Sku(j)] : m \in 1..MaxSkus}
    \cup {[j \in 1..m |-> Sku(m + 1 - j)] : m \in 1..MaxSkus}

TopData ==
    {Dataset(Array(Sellers(<<1>>)), Array(Products(skus)), NonEmptyArray) :
        skus \in TopCatalogs}

TopHeaders == IF records = <<>> THEN {Receipt(1, 7)} ELSE {}

TopItems ==
    LET m == Len(data.products.elems)
    IN  IF ItemsRead <= m
        THEN {Sold(data.products.elems[(ItemsRead % m) + 1].sku, q, 3, 0) : q \in 1..2}
        ELSE {}

InitTop == \E d \in TopData : Start(d, GoodOptions)

NextTop ==
    \/ Validate
    \/ ProcessRecord(TopHeaders)
    \/ ProcessItem(TopItems)
    \/ SortSellers
    \/ AssignBonus
    \/ Return

SpecTop == InitTop /\ [][NextTop]_vars

-----------------------------------------------------------------------------
(* Vocabulary of the properties, taken from the inputs *)

InputSellers == data.sellers.elems

InputProducts == data.products.elems

KnownSellerIds == {InputSellers[j].id : j \in DOMAIN InputSellers}

CatalogSkus == {InputProducts[j].sku : j \in DOMAIN InputProducts}

\* the place in data.sellers of the seller a seller id resolves to
ResolvedTo(id) ==
    CHOOSE j \in DOMAIN InputSellers :
        /\ InputSellers[j].id = id
        /\ \A m \in (j + 1)..Len(InputSellers) : InputSellers[m].id # id

\* the place in data.sellers of the seller with this name
PlaceOf(name) ==
    CHOOSE j \in DOMAIN InputSellers :
        name = <<InputSellers[j].first_name, InputSellers[j].last_name>>

\* the product a sku resolves to
Catalogued(sku) ==
    InputProducts[CHOOSE j \in DOMAIN InputProducts :
        /\ InputProducts[j].sku = sku
        /\ \A m \in (j + 1)..Len(InputProducts) : InputProducts[m].sku # sku]

\* the records read so far that resolve to the seller at place j
ReceiptsOf(j) ==
    SelectSeq(records,
              LAMBDA r : r.seller_id \in KnownSellerIds /\ ResolvedTo(r.seller_id) = j)

\* an amount of whole units, in units of 1/10^4
Whole(x) == x * Percent * AccPerCent

Aggregating == pc \in {"records", "items"}

RecordStep == Aggregating /\ Len(records') = Len(records) + 1

ItemStep == pc = "items" /\ Len(records') = Len(records) /\ records' # records

-----------------------------------------------------------------------------
(* Properties *)

\* C1: a call that passes validation returns a report with exactly as many
\* entries as data.sellers, whatever the records reference.
C1_ReportLength == pc = "returned" => Len(report) = Len(InputSellers)

\* C1 witness: a report for two sellers with the same id, after a record of
\* an unknown seller and a line item of an unknown sku.
C1_Witness ==
    /\ pc = "returned"
    /\ Len(InputSellers) = 2
    /\ InputSellers[1].id = InputSellers[2].id
    /\ \E w \in Range(warnings) : w[1] = "seller"
    /\ \E w \in Range(warnings) : w[1] = "sku"

\* C6: validation is fatal and comes before all aggregation: when the
\* dataset is missing, or one of sellers, products, purchase_records is not
\* an array or is empty, or options is missing, null or not an object, or
\* one of the two callables is not a function, the call throws: it makes no
\* accumulator, reads no record, warns of nothing and returns no report.
C6_ValidationFatal ==
    LET badData ==
            \/ ~data.given
            \/ ~data.sellers.isArray \/ data.sellers.elems = <<>>
            \/ ~data.products.isArray \/ data.products.elems = <<>>
            \/ ~data.purchase_records.isArray \/ data.purchase_records.empty
        badOptions ==
            \/ options.value \in {"undefined", "null", "string", "function"}
            \/ options.calculateRevenue # "function"
            \/ options.calculateBonus # "function"
    IN  (badData \/ badOptions) =>
            /\ pc \in {"call", "thrown"}
            /\ pc = "thrown" => error # ""
            /\ sellerStats = <<>>
            /\ sellerIndex = <<>>
            /\ records = <<>>
            /\ warnings = <<>>
            /\ report = <<>>

\* C6 witness: the call has thrown for a dataset whose only fault is an
\* empty purchase_records, with good options.
C6_Witness ==
    /\ pc = "thrown"
    /\ options = GoodOptions
    /\ data.given
    /\ data.sellers.isArray /\ data.sellers.elems # <<>>
    /\ data.products.isArray /\ data.products.elems # <<>>
    /\ data.purchase_records.isArray /\ data.purchase_records.empty

\* the accumulator at place p of the sorted copy
Ranked(p) == sellerStats[sortedSellers[p]]

\* C2: the report is in descending order of accumulated profit, each entry's
\* profit at least the next one's, and sellers of equal accumulated profit
\* stand in the order they have in data.sellers.
C2_SortedByProfit ==
    pc = "returned" =>
        /\ \A p \in 1..(Len(report) - 1) :
            /\ report[p].profit >= report[p + 1].profit
            /\ Ranked(p).profit >= Ranked(p + 1).profit
        /\ \A p, q \in DOMAIN report :
            (p < q /\ Ranked(p).profit = Ranked(q).profit)
                => PlaceOf(report[p].name) < PlaceOf(report[q].name)
        /\ {PlaceOf(report[p].name) : p \in DOMAIN report} = DOMAIN InputSellers

\* C2 witness: a report of four sellers or more in which the first of
\* data.sellers is not first, two sellers of equal profit follow a seller of
\* a larger one, and the profits differ.
C2_Witness ==
    /\ pc = "returned"
    /\ Len(report) >= 4
    /\ PlaceOf(report[1].name) # 1
    /\ report[1].profit > report[2].profit
    /\ Ranked(2).profit = Ranked(3).profit
    /\ report[3].profit > report[Len(report)].profit

\* the bonus of place index among total sellers as a percentage of a positive
\* profit, by the place alone: from the fourth place on there are at least
\* four sellers, and only there the last place earns nothing
RateOfPlace(index, total) ==
    CASE index = 0 -> 15
      [] index \in {1, 2} -> 10
      [] index >= 3 /\ index = total - 1 -> 0
      [] index >= 3 /\ index < total - 1 -> 5

\* C3: calculateBonusByProfit follows the rules in their fixed order: no
\* bonus for a profit <= 0, then 15% for index 0, 10% for index 1 or 2,
\* nothing for index = total - 1, 5% otherwise.  The last-place rule gives 0
\* only when total > 3; for total <= 3 the last seller with a positive
\* profit earns 15% or 10%.  With total = 5 and a profit of 1000 the places
\* earn 150, 100, 100, 50, 0; with total = 2, place 1 and a profit of 500
\* earn 50.
C3_BonusRules ==
    \A p \in 1..k :
        LET index  == p - 1
            total  == Len(sortedSellers)
            profit == Ranked(p).profit
            bonus  == Ranked(p).bonus
        IN  /\ profit <= 0 => bonus = 0
            /\ profit > 0 => bonus = profit * RateOfPlace(index, total)
            /\ (profit > 0 /\ bonus = 0) => (total > 3 /\ index = total - 1)
            /\ (profit > 0 /\ total <= 3) => bonus \in {profit * 15, profit * 10}
            /\ (total = 5 /\ profit = Whole(1000)) =>
                   bonus = Whole(<<150, 100, 100, 50, 0>>[p]) * Percent
            /\ (total = 2 /\ index = 1 /\ profit = Whole(500)) =>
                   bonus = Whole(50) * Percent

\* C3 witness: among two sellers the second, with a profit of 500, has been
\* given a bonus of 50.
C3_Witness ==
    /\ pc = "bonus"
    /\ k = 2
    /\ Len(sortedSellers) = 2
    /\ Ranked(2).profit = Whole(500)
    /\ Ranked(2).bonus = Whole(50) * Percent

\* C10: with calculateBonusByProfit as the bonus function the bonuses of the
\* report are never negative and never increase from one entry to the next.
C10_BonusNonIncreasing ==
    pc = "returned" =>
        /\ \A p \in DOMAIN report : report[p].bonus >= 0 /\ Ranked(p).bonus >= 0
        /\ \A p \in 1..(Len(report) - 1) :
            /\ report[p].bonus >= report[p + 1].bonus
            /\ Ranked(p).bonus >= Ranked(p + 1).bonus

\* C10 witness: a report of five sellers with a positive, a zero and a
\* negative profit among them, whose bonuses fall from 15% over 10% and 5%
\* to nothing.
C10_Witness ==
    /\ pc = "returned"
    /\ Len(report) = 5
    /\ \E p \in DOMAIN report : Ranked(p).profit = 0
    /\ \E p \in DOMAIN report : Ranked(p).profit < 0
    /\ report[1].bonus > report[2].bonus
    /\ report[2].bonus > report[3].bonus
    /\ report[3].bonus > report[4].bonus

\* the record the outer forEach has just read
NewRecord == records'[Len(records')]

\* C4: a record whose seller_id is not in the seller index is skipped as a
\* whole: a warning names the id, no accumulator changes, none of its line
\* items is read, nothing is thrown, and the outer forEach goes on.
C4_UnknownSellerSkipped ==
    /\ [][(RecordStep /\ NewRecord.seller_id \notin KnownSellerIds) =>
            /\ sellerStats' = sellerStats
            /\ warnings' = Append(warnings, <<"seller", NewRecord.seller_id>>)
            /\ pc' = "records"
            /\ cur' = 0
            /\ error' = error
            /\ report' = report]_vars
    /\ [](\A j \in DOMAIN records :
            records[j].seller_id \notin KnownSellerIds => records[j].items = 0)
    /\ [](pc = "items" => records[Len(records)].seller_id \in KnownSellerIds)

\* C4 witness: after a record of an unknown seller, which was warned of, a
\* later record has been booked on its seller and one of its items read.
C4_Witness ==
    \E j, m \in DOMAIN records :
        /\ j < m
        /\ records[j].seller_id \notin KnownSellerIds
        /\ records[m].seller_id \in KnownSellerIds
        /\ records[m].items > 0
        /\ warnings # <<>> /\ warnings[1] = <<"seller", records[j].seller_id>>
        /\ sellerStats[ResolvedTo(records[m].seller_id)].sales_count > 0

\* the totals of a sequence of records
Totals(rs) == Sum([j \in DOMAIN rs |-> rs[j].total_amount])

\* C5: a line item whose SKU is not in the product index is skipped alone: a
\* warning names the sku, the item changes no profit and no per-SKU
\* quantity, the seller keeps the sales_count and the revenue booked for the
\* record, and the inner forEach goes on.
C5_UnknownSkuSkipped ==
    [][(ItemStep /\ item'.sku \notin CatalogSkus) =>
        /\ sellerStats' = sellerStats
        /\ warnings' = Append(warnings, <<"sku", item'.sku>>)
        /\ pc' = "items"
        /\ cur' = cur
        /\ error' = error
        /\ sellerStats'[cur].sales_count = Len(ReceiptsOf(cur))
        /\ sellerStats'[cur].sales_count >= 1
        /\ sellerStats'[cur].revenue = Totals(ReceiptsOf(cur)) * AccPerCent]_vars

\* C5 witness: in one record the first item, of an unknown sku, was warned
\* of and the second, of a known sku, was counted.
C5_Witness ==
    /\ pc = "items"
    /\ Len(records) = 1
    /\ records[1].items = 2
    /\ warnings = <<(<<"sku", <<"str", 0>>>>)>>
    /\ item.sku \in CatalogSkus
    /\ Len(sellerStats[cur].products_sold) = 1
    /\ sellerStats[cur].profit # 0
    /\ sellerStats[cur].sales_count = 1

\* C8: each accumulator's revenue is the sum of total_amount over exactly the
\* records whose seller_id resolved to it and its sales_count their number,
\* at every point of the aggregation and after it, whatever the line items
\* were; the report shows the same.
C8_DualAccounting ==
    /\ \A j \in DOMAIN sellerStats :
        /\ sellerStats[j].revenue = Totals(ReceiptsOf(j)) * AccPerCent
        /\ sellerStats[j].sales_count = Len(ReceiptsOf(j))
    /\ \A p \in DOMAIN report :
        /\ report[p].revenue = Totals(ReceiptsOf(PlaceOf(report[p].name)))
        /\ report[p].sales_count = Len(ReceiptsOf(PlaceOf(report[p].name)))

\* C8 witness: a reported seller with two receipts, totals 7/100 and 14/100
\* or later ones, a loss as profit, and an item of an unknown sku warned of.
C8_Witness ==
    /\ pc = "returned"
    /\ \E w \in Range(warnings) : w[1] = "sku"
    /\ \E p \in DOMAIN report :
        /\ report[p].sales_count = 2
        /\ report[p].revenue >= 21
        /\ Ranked(p).profit < 0

\* what one unit of the item last read earns over its cost, in units of
\* 1/10^4, for an item of a known product
Margin ==
    item'.sale_price * (Percent - item'.discount)
        - Catalogued(item'.sku).purchase_price * Percent

\* C9 as stated: during aggregation no step leaves an accumulator's revenue,
\* profit or sales_count lower than before.
C9_AllMonotone ==
    [][Aggregating =>
        \A j \in DOMAIN sellerStats :
            /\ sellerStats'[j].revenue >= sellerStats[j].revenue
            /\ sellerStats'[j].sales_count >= sellerStats[j].sales_count
            /\ sellerStats'[j].profit >= sellerStats[j].profit]_vars

\* C9 amended: during aggregation no step lowers an accumulator's revenue or
\* sales_count (the receipt totals are not negative); profit changes only at
\* a line item of a known product, for the record's seller, by the item's
\* revenue less its cost, and so falls only at an item sold below cost.
C9_MonotoneButProfit ==
    [][Aggregating =>
        \A j \in DOMAIN sellerStats :
            /\ sellerStats'[j].revenue >= sellerStats[j].revenue
            /\ sellerStats'[j].sales_count >= sellerStats[j].sales_count
            /\ sellerStats'[j].profit # sellerStats[j].profit =>
                /\ ItemStep
                /\ j = cur
                /\ item'.sku \in CatalogSkus
                /\ sellerStats'[j].profit - sellerStats[j].profit
                       = item'.quantity * Margin
            /\ sellerStats'[j].profit < sellerStats[j].profit => Margin < 0]_vars

\* C9 witness: the item last read was sold below cost and took its seller's
\* profit below zero.
C9_Witness ==
    /\ pc = "items"
    /\ item.sku \in CatalogSkus
    /\ item.sale_price * (Percent - item.discount)
           < Catalogued(item.sku).purchase_price * Percent
    /\ sellerStats[cur].profit < 0
    /\ sellerStats[cur].sales_count >= 1

\* the place of a sku among the properties of products_sold: the order in
\* which the skus were first recorded for the seller
FirstRecorded(sold, sku) == CHOOSE j \in DOMAIN sold : sold[j].sku = sku

\* top_products holds the skus sold, each once with its quantity, at most
\* ten of them, the largest quantities first
IsTopTen(top, sold) ==
    /\ Len(top) <= 10
    /\ Len(top) = (IF Len(sold) < 10 THEN Len(sold) ELSE 10)
    /\ \A a \in DOMAIN top : top[a] \in Range(sold)
    /\ \A a, b \in DOMAIN top : a < b => top[a].sku # top[b].sku
    /\ \A a \in 1..(Len(top) - 1) : top[a].quantity >= top[a + 1].quantity
    /\ \A e \in Range(sold) :
        e \notin Range(top) => \A a \in DOMAIN top : top[a].quantity >= e.quantity

\* C7: for every seller of the report top_products has at most 10 entries,
\* is sorted by quantity descending, and entries of equal quantity keep the
\* order in which their skus were first recorded for the seller.
C7_TopProductsFirstRecorded ==
    pc = "returned" =>
        \A p \in DOMAIN report :
            LET top  == report[p].top_products
                sold == Ranked(p).products_sold
            IN  /\ IsTopTen(top, sold)
                /\ \A a, b \in DOMAIN top :
                    (a < b /\ top[a].quantity = top[b].quantity)
                        => FirstRecorded(sold, top[a].sku) < FirstRecorded(sold, top[b].sku)

\* What holds instead of C7: entries of equal quantity stand in the order of
\* Object.entries: canonical numeric skus first, in ascending numeric order,
\* then the other skus in the order first recorded; a seller who sold no
\* canonical numeric sku has them in the order first recorded.
TopProductsEnumerated ==
    pc = "returned" =>
        \A p \in DOMAIN report :
            LET top  == report[p].top_products
                sold == Ranked(p).products_sold
            IN  /\ IsTopTen(top, sold)
                /\ \A a, b \in DOMAIN top :
                    (a < b /\ top[a].quantity = top[b].quantity) =>
                        IF top[a].sku[1] = "int" /\ top[b].sku[1] = "int"
                        THEN top[a].sku[2] < top[b].sku[2]
                        ELSE IF top[a].sku[1] = "str" /\ top[b].sku[1] = "str"
                        THEN FirstRecorded(sold, top[a].sku) < FirstRecorded(sold, top[b].sku)
                        ELSE top[a].sku[1] = "int"

\* more than ten skus sold, some of equal quantity, and a report
ElevenSold ==
    /\ pc = "returned"
    /\ Len(Ranked(1).products_sold) > 10
    /\ Len(report[1].top_products) = 10
    /\ report[1].top_products[1].quantity > report[1].top_products[10].quantity
    /\ report[1].top_products[1].quantity = report[1].top_products[2].quantity

====
